---- MODULE Spec2Model ----
(***************************************************************************)
(* The 2048 grid engine of src/main.rs as a state machine.                 *)
(*                                                                         *)
(* The world holds the tile entities (Position + Points).  The systems of  *)
(* OnUpdate(GameState::Playing) -- board_shift, new_tile_handler and       *)
(* end_game -- carry no ordering constraint, so within one frame they run  *)
(* once each in any order.  Component writes are immediate; Commands       *)
(* (spawn, despawn) are buffered and applied when the frame's buffers are  *)
(* flushed.  NewTileEvent travels through the double-buffered Events       *)
(* queue, which is rotated once at the start of every frame.               *)
(***************************************************************************)
EXTENDS Integers, Sequences, FiniteSets, Bags, TLC

\* Dimension of the board the full game is explored on (bound; the source
\* builds Board::new(4), too large to explore exhaustively).
GameSize == 2

\* Board::new(4): the dimension used when the shift is examined alone.
BoardSize == 4

\* Directional commands accepted per game before the exploration stops.
MaxTurns == 5

\* The first line of the boards fed to the shift alone holds the values
\* 2^1 .. 2^PureMaxExp (the second line holds 2 and 4).
PureMaxExp == 2

\* The boards on which the handling of the pressed keys is examined hold at
\* most this many tiles.
MaxInputTiles == 3

\* u8 arithmetic of Position and col.
U8 == 256

VARIABLES
    board,       \* the Board component: [size]
    tiles,       \* bag of tile entities [x, y, value] present in the world
    commands,    \* buffered Commands of the current frame, in issue order
    events,      \* unread NewTileEvents: [a |-> previous frame, b |-> this frame]
    game,        \* the Game resource: [score, best_score]
    state,       \* State<GameState>
    next_state,  \* NextState<GameState>: "None" or the requested state
    ran,         \* systems that already ran in the current frame
    turns,       \* directional commands processed since the last reset
    merged,      \* merges done by the shift of the current frame
    served,      \* turn of the latest command a spawn was requested for
    panicked,    \* the process stopped on an arithmetic overflow panic
    spawned,     \* spawn_tile calls applied since the last reset
    probe        \* input of a shift examined alone: [tiles, dir, keys]

vars == <<board, tiles, commands, events, game, state, next_state, ran, turns, merged,
          served, panicked, spawned, probe>>

\* No shift has been examined alone.
NoProbe == [tiles |-> EmptyBag, dir |-> "None", keys |-> {}]

Systems == {"board_shift", "new_tile_handler", "end_game"}

Directions == {"Left", "Right", "Up", "Down"}

\* KeyCode values; "Space" stands for every key that is not an arrow.
KeyCodes == Directions \cup {"Space"}

\* A system of OnUpdate(s) that runs in every state.  C11 is checked against
\* it.
OnUpdate_every_state(s, current) == TRUE

\* .in_set(OnUpdate(s)): the run condition of the set, state == s
OnUpdate(s, current) == current = s

-----------------------------------------------------------------------------
(* Helpers over bags and sequences *)

RECURSIVE BagOfSeq(_)
BagOfSeq(s) ==
    IF s = <<>> THEN EmptyBag ELSE SetToBag({Head(s)}) (+) BagOfSeq(Tail(s))

RECURSIVE SumOver(_, _)
SumOver(B, S) ==
    IF S = {} THEN 0
    ELSE LET t == CHOOSE u \in S : TRUE
         IN  t.value * B[t] + SumOver(B, S \ {t})

\* The sum of the values of the tiles of a bag
BagSum(B) == SumOver(B, DOMAIN B)

PosOf(t) == [x |-> t.x, y |-> t.y]

\* (0..board.size).cartesian_product(0..board.size)
Cells(n) == {[x |-> cx, y |-> cy] : cx \in 0..(n - 1), cy \in 0..(n - 1)}

-----------------------------------------------------------------------------
(* BoardShift *)

\* Ord::cmp with Less and Greater exchanged.  C16 is checked against it.
Cmp_reversed(a, b) == IF a > b THEN "Less" ELSE IF a = b THEN "Equal" ELSE "Greater"

\* Ord::cmp
Cmp(a, b) == IF a < b THEN "Less" ELSE IF a = b THEN "Equal" ELSE "Greater"

\* sort with the arm of Left taken for every direction.  C19 is checked
\* against it.
sort_as_left(dir, a, b) ==
    IF Cmp(a.y, b.y) = "Equal" THEN Cmp(a.x, b.x) ELSE Cmp(a.y, b.y)

\* BoardShift::sort
sort(dir, a, b) ==
    CASE dir = "Left"  -> IF Cmp(a.y, b.y) = "Equal" THEN Cmp(a.x, b.x) ELSE Cmp(a.y, b.y)
      [] dir = "Right" -> IF Cmp(b.y, a.y) = "Equal" THEN Cmp(b.x, a.x) ELSE Cmp(b.y, a.y)
      [] dir = "Up"    -> IF Cmp(b.x, a.x) = "Equal" THEN Cmp(b.y, a.y) ELSE Cmp(b.x, a.x)
      [] dir = "Down"  -> IF Cmp(a.x, b.x) = "Equal" THEN Cmp(a.y, b.y) ELSE Cmp(a.x, b.x)

\* set_column_position that counts every slot from the low edge.  C15 is
\* checked against it.
set_column_position_from_low_edge(dir, board_size, pos, col) ==
    IF dir \in {"Left", "Right"} THEN [pos EXCEPT !.x = col] ELSE [pos EXCEPT !.y = col]

\* BoardShift::set_column_position (u8 arithmetic)
set_column_position(dir, board_size, pos, col) ==
    CASE dir = "Left"  -> [pos EXCEPT !.x = col]
      [] dir = "Right" -> [pos EXCEPT !.x = (board_size - 1 - col) % U8]
      [] dir = "Up"    -> [pos EXCEPT !.y = (board_size - 1 - col) % U8]
      [] dir = "Down"  -> [pos EXCEPT !.y = col]

\* board_size - 1 - col leaves the u8 range: a panic in a build with overflow
\* checks, a wrapped value otherwise.
Underflows(dir, board_size, col) ==
    dir \in {"Right", "Up"} /\ board_size - 1 - col < 0

\* get_row_position with the arms of the match confused: every direction
\* reads y.  C3 is checked against it.
get_row_position_y_only(dir, pos) == pos.y

\* BoardShift::get_row_position
get_row_position(dir, pos) ==
    IF dir \in {"Left", "Right"} THEN pos.y ELSE pos.x

\* try_from that takes every other key for Left.  C13 is checked against it.
try_from_or_left(key) == IF key \in Directions THEN key ELSE "Left"

\* TryFrom<&KeyCode> for BoardShift, followed by .ok()
try_from(key) == IF key \in Directions THEN key ELSE "None"

\* input.get_just_pressed().find_map(..): the first arrow key met while
\* iterating the hash set of just-pressed keys, any of which can come first;
\* "None" when no arrow key is among them.  The result is the set of values
\* the call can return.
find_map(keys) ==
    IF \A k \in keys : try_from(k) = "None"
    THEN {"None"}
    ELSE {try_from(k) : k \in keys} \ {"None"}

\* tiles.iter_mut().sorted_by(board_shift.sort): every order of the entities
\* that the comparator allows.  Entities that compare Equal keep their query
\* order, which the world's storage decides.
RECURSIVE sorted_by(_, _)
sorted_by(B, dir) ==
    IF B = EmptyBag THEN {<<>>}
    ELSE LET S == BagToSet(B)
             firsts == {t \in S : \A u \in S : sort(dir, u, t) # "Less"}
         IN  UNION {{<<t>> \o rest : rest \in sorted_by(B (-) SetToBag({t}), dir)} :
                    t \in firsts}

\* The merge that triples the value.  C14 is checked against it.
Doubled_tripled(value) == value * 3

\* tile.2.value *= 2
Doubled(value) == value * 2

\* ScoreAdd with the score taken before the doubling.  C5 is checked
\* against it.
ScoreAdd_before_doubling(score, tile_value) == score + tile_value \div 2

\* game.score += tile.2.value, after the doubling
ScoreAdd(score, tile_value) == score + tile_value

\* The while loop of board_shift over the sorted entities `it`, from index i
\* with slot counter col.  acc collects the entities kept (with their new
\* position and value, and in origin as they were before the shift), the
\* entities whose despawn is requested, the amount added to game.score, a log
\* of the merges, and whether a slot computation left the u8 range.
RECURSIVE ShiftLoop(_, _, _, _, _, _)
ShiftLoop(it, i, col, dir, board_size, acc) ==
    IF i > Len(it) THEN acc
    ELSE
      LET tile == set_column_position(dir, board_size, it[i], col)
          acc0 == [acc EXCEPT !.overflow = @ \/ Underflows(dir, board_size, col)]
      IN  IF i + 1 > Len(it)
          THEN [acc0 EXCEPT !.kept = Append(@, tile), !.origin = Append(@, it[i])]
          ELSE
            LET next_tile == it[i + 1]
            IN  IF get_row_position(dir, next_tile) # get_row_position(dir, tile)
                THEN ShiftLoop(it, i + 1, 0, dir, board_size,
                               [acc0 EXCEPT !.kept = Append(@, tile),
                                            !.origin = Append(@, it[i])])
                ELSE IF next_tile.value # tile.value
                THEN ShiftLoop(it, i + 1, (col + 1) % U8, dir, board_size,
                               [acc0 EXCEPT !.kept = Append(@, tile),
                                            !.origin = Append(@, it[i])])
                ELSE \* merge
                  LET doubled == [tile EXCEPT !.value = Doubled(tile.value)]
                      col2 == IF i + 2 > Len(it) THEN col
                              ELSE IF get_row_position(dir, it[i + 2])
                                      # get_row_position(dir, doubled)
                                   THEN 0
                                   ELSE (col + 1) % U8
                  IN  ShiftLoop(it, i + 2, col2, dir, board_size,
                                [overflow  |-> acc0.overflow,
                                 kept      |-> Append(acc.kept, doubled),
                                 origin    |-> Append(acc.origin, it[i]),
                                 despawned |-> Append(acc.despawned, next_tile),
                                 score     |-> ScoreAdd(acc.score, doubled.value),
                                 merges    |-> Append(acc.merges,
                                                [before |-> tile.value,
                                                 after  |-> doubled.value])])

Shift(it, dir, board_size) ==
    ShiftLoop(it, 1, 0, dir, board_size,
              [kept |-> <<>>, origin |-> <<>>, despawned |-> <<>>, score |-> 0,
               merges |-> <<>>, overflow |-> FALSE])

\* send called twice for one command.  C9 is checked against it.
send_twice(ev, turn, changed) ==
    [ev EXCEPT !.b = @ \o <<[turn |-> turn, changed |-> changed],
                            [turn |-> turn, changed |-> changed]>>]

\* new_tile_events.send(NewTileEvent): the event joins the buffer of the
\* current frame; turn and changed record the command that sent it.
send(ev, turn, changed) ==
    [ev EXCEPT !.b = Append(@, [turn |-> turn, changed |-> changed])]

DespawnCmds(s) == [i \in 1..Len(s) |-> [op |-> "despawn", tile |-> s[i]]]

\* BestAfter with the comparison reversed.  C6 is checked against it.
BestAfter_reversed(best, score) == IF best > score THEN score ELSE best

\* game.best_score after the comparison that closes board_shift
BestAfter(best, score) == IF best < score THEN score ELSE best

\* The body of board_shift once `direction` is what find_map returned.
BoardShiftBody(direction) ==
    IF direction = "None"
    THEN UNCHANGED <<tiles, commands, events, game, turns, merged, panicked>>
    ELSE
      \E it \in sorted_by(tiles, direction) :
        LET r == Shift(it, direction, board.size)
            changed == BagOfSeq(r.kept) # tiles
        IN  \/ /\ tiles' = BagOfSeq(r.kept) (+) BagOfSeq(r.despawned)
               /\ commands' = commands \o DespawnCmds(r.despawned)
               /\ events' = send(events, turns + 1, changed)
               /\ game' = [score      |-> game.score + r.score,
                           best_score |-> BestAfter(game.best_score, game.score + r.score)]
               /\ turns' = turns + 1
               /\ merged' = r.merges
               /\ UNCHANGED panicked
            \/ /\ r.overflow
               /\ panicked' = TRUE
               /\ UNCHANGED <<tiles, commands, events, game, turns, merged>>

\* The sets of keys that can be just pressed in one frame
KeySets == SUBSET KeyCodes

\* System board_shift, run once per frame while Playing.
BoardShift ==
    /\ ~panicked
    /\ OnUpdate("Playing", state)
    /\ "board_shift" \notin ran
    /\ \E direction \in UNION {find_map(keys) : keys \in KeySets} :
         /\ direction # "None" => turns < MaxTurns
         /\ BoardShiftBody(direction)
    /\ ran' = ran \cup {"board_shift"}
    /\ UNCHANGED <<board, state, next_state, served, spawned, probe>>

-----------------------------------------------------------------------------
(* Spawner *)

\* spawn_tile that inserts Points { value: 4 }.  C18 is checked against it.
spawn_tile_of_four(pos) == [x |-> pos.x, y |-> pos.y, value |-> 4]

\* spawn_tile: the entity a spawn command creates
spawn_tile(pos) == [x |-> pos.x, y |-> pos.y, value |-> 2]

\* A buffered spawn_tile call; turn and changed record the command whose
\* NewTileEvent asked for it (0 for the starting tiles).
SpawnCmd(pos, turn, changed) ==
    [op |-> "spawn", pos |-> pos, turn |-> turn, changed |-> changed]

\* possible_position without the filter on the query: every cell.  C12 is
\* checked against it.
possible_position_any_cell(world, board_size) == Cells(board_size)

\* The cells new_tile_handler finds no Position for in its query.
possible_position(world, board_size) ==
    {c \in Cells(board_size) : \A t \in BagToSet(world) : PosOf(t) # c}

\* tile_reader.iter(): the events of both buffers the reader has not seen
iter(ev) == ev.a \o ev.b

\* The unread events once the reader has gone through them
AfterIter(ev) == [a |-> <<>>, b |-> <<>>]

\* System new_tile_handler: one pass of the loop per unread event; every pass
\* looks at the same query, which the buffered commands have not changed yet.
NewTileHandler ==
    /\ ~panicked
    /\ OnUpdate("Playing", state)
    /\ "new_tile_handler" \notin ran
    /\ LET unread == iter(events)
           free == possible_position(tiles, board.size)
       IN  IF free = {}
           THEN /\ commands' = commands
                /\ served' = served
           ELSE \E choice \in [1..Len(unread) -> free] :
                  /\ commands' = commands \o
                       [i \in 1..Len(unread) |->
                           SpawnCmd(choice[i], unread[i].turn, unread[i].changed)]
                  /\ served' = IF unread = <<>> THEN served
                                ELSE unread[Len(unread)].turn
    /\ events' = AfterIter(events)
    /\ ran' = ran \cup {"new_tile_handler"}
    /\ UNCHANGED <<board, tiles, game, state, next_state, turns, merged, panicked,
                   spawned, probe>>

-----------------------------------------------------------------------------
(* TerminalDetector *)

\* let max_tiles = 16, the cell count of the 4x4 board
max_tiles(board_size) == board_size * board_size

as_i8(v) == IF v >= 128 THEN v - U8 ELSE v

\* neighbor_points without the vertical neighbours.  C17 is checked against
\* it.
neighbor_points_horizontal == {<<-1, 0>>, <<1, 0>>}

neighbor_points == {<<-1, 0>>, <<0, 1>>, <<1, 0>>, <<0, -1>>}

\* tiles.iter().collect::<HashMap<_, _>>(): one value per position; of several
\* entities at one position the one iterated last stays.
HashMaps(world) ==
    LET positions == {PosOf(t) : t \in BagToSet(world)}
        valuesAt(p) == {t.value : t \in {u \in BagToSet(world) : PosOf(u) = p}}
        shared == {p \in positions : Cardinality(valuesAt(p)) > 1}
        alone == [p \in positions \ shared |-> CHOOSE v \in valuesAt(p) : TRUE]
    IN  {alone @@ kept :
            kept \in {c \in [shared -> UNION {valuesAt(p) : p \in shared}] :
                        \A p \in shared : c[p] \in valuesAt(p)}}

has_move(world, map, board_size) ==
    \E t \in BagToSet(world) :
      \E d \in neighbor_points :
        LET new_x == as_i8(t.x) - d[1]
            new_y == as_i8(t.y) - d[2]
        IN  /\ new_x \in 0..(board_size - 1)
            /\ new_y \in 0..(board_size - 1)
            /\ [x |-> new_x, y |-> new_y] \in DOMAIN map
            /\ map[[x |-> new_x, y |-> new_y]] = t.value

\* The NextState end_game leaves behind.
EndGameBody(world, map, board_size, requested) ==
    IF BagCardinality(world) = max_tiles(board_size)
       /\ ~has_move(world, map, board_size)
    THEN "GameOver"
    ELSE requested

\* System end_game
EndGame ==
    /\ ~panicked
    /\ OnUpdate("Playing", state)
    /\ "end_game" \notin ran
    /\ \E map \in HashMaps(tiles) :
         next_state' = EndGameBody(tiles, map, board.size, next_state)
    /\ ran' = ran \cup {"end_game"}
    /\ UNCHANGED <<board, tiles, commands, events, game, state, turns, merged,
                   served, panicked, spawned, probe>>

-----------------------------------------------------------------------------
(* Frame boundary, reset *)

RECURSIVE ApplyCommands(_, _)
ApplyCommands(world, cmds) ==
    IF cmds = <<>> THEN world
    ELSE LET c == Head(cmds)
         IN  ApplyCommands(
               IF c.op = "despawn"
               THEN world (-) SetToBag({c.tile})
               ELSE world (+) SetToBag({spawn_tile(c.pos)}),
               Tail(cmds))

\* game_reset that leaves the old tiles in place.  C7 is checked against it.
game_reset_keeps_tiles(world) == <<>>

\* game_reset: a despawn command for every entity of the query (the caller
\* sets game.score to 0)
RECURSIVE game_reset(_)
game_reset(world) ==
    IF world = EmptyBag THEN <<>>
    ELSE LET t == CHOOSE u \in BagToSet(world) : TRUE
         IN  <<[op |-> "despawn", tile |-> t]>> \o game_reset(world (-) SetToBag({t}))

\* spawn_tiles: choose_multiple(.., 2) over the cells, one spawn_tile each
spawn_tiles(board_size) ==
    {<<SpawnCmd(pq[1], 0, TRUE), SpawnCmd(pq[2], 0, TRUE)>> :
        pq \in {c \in Cells(board_size) \X Cells(board_size) : c[1] # c[2]}}

\* OnEnter(GameState::Playing): game_reset and spawn_tiles in either order,
\* then the schedule's buffers are applied.
EnterPlaying(world, board_size) ==
    {ApplyCommands(world, game_reset(world) \o st) : st \in spawn_tiles(board_size)}
    \cup
    {ApplyCommands(world, st \o game_reset(world)) : st \in spawn_tiles(board_size)}

\* End of a frame and start of the next: the buffered commands are applied,
\* Events::update rotates the event buffers, and a requested state
\* transition takes place (running OnEnter(Playing) when Playing is entered).
FrameBoundary ==
    /\ ~panicked
    /\ state = "Playing" => ran = Systems
    /\ LET flushed == ApplyCommands(tiles, commands)
       IN  IF next_state = "Playing"
           THEN /\ tiles' \in EnterPlaying(flushed, board.size)
                /\ game' = [game EXCEPT !.score = 0]
                /\ turns' = 0
                /\ served' = 0
                /\ spawned' = 2
           ELSE /\ tiles' = flushed
                /\ spawned' = spawned + Len(SelectSeq(commands, LAMBDA c : c.op = "spawn"))
                /\ UNCHANGED <<game, turns, served>>
    /\ state' = IF next_state = "None" THEN state ELSE next_state
    /\ next_state' = "None"
    /\ commands' = <<>>
    /\ events' = [a |-> events.b, b |-> <<>>]
    /\ ran' = {}
    /\ merged' = <<>>
    /\ UNCHANGED <<board, panicked, probe>>

\* The reset command of the UI: asks for Playing while the game is over.
UiReset ==
    /\ state = "GameOver"
    /\ next_state = "None"
    /\ next_state' = "Playing"
    /\ UNCHANGED <<board, tiles, commands, events, game, state, ran, turns, merged,
                   served, panicked, spawned, probe>>

-----------------------------------------------------------------------------
(* The game *)

Init ==
    /\ board = [size |-> GameSize]
    /\ tiles \in EnterPlaying(EmptyBag, GameSize)
    /\ spawned = 2
    /\ commands = <<>>
    /\ events = [a |-> <<>>, b |-> <<>>]
    /\ game = [score |-> 0, best_score |-> 0]
    /\ state = "Playing"
    /\ next_state = "None"
    /\ ran = {}
    /\ turns = 0
    /\ merged = <<>>
    /\ served = 0
    /\ panicked = FALSE
    /\ probe = NoProbe

Next ==
    \/ BoardShift
    \/ NewTileHandler
    \/ EndGame
    \/ FrameBoundary
    \/ UiReset

Spec == Init /\ [][Next]_vars

-----------------------------------------------------------------------------
(* The shift examined alone, on the 4x4 board *)

PureValues == {2^e : e \in 1..PureMaxExp}

\* The tiles of two lines of the board: line 0 holds l0 and line 1 holds l1
\* (0 for an empty cell); the lines are rows, or columns when transposed.
BoardOfLines(transposed, l0, l1) ==
    LET at(line, i) == IF transposed THEN [x |-> line, y |-> i] ELSE [x |-> i, y |-> line]
        lineTiles(line, l) ==
            {[x |-> at(line, i).x, y |-> at(line, i).y, value |-> l[i]] :
                i \in {k \in DOMAIN l : l[k] # 0}}
    IN  SetToBag(lineTiles(0, l0) \cup lineTiles(1, l1))

PureBoards ==
    LET Lines0 == [0..(BoardSize - 1) -> {0} \cup PureValues]
        Lines1 == [0..(BoardSize - 1) -> {0, 2, 4}]
    IN  {BoardOfLines(tr, l0, l1) : tr \in BOOLEAN, l0 \in Lines0, l1 \in Lines1}

InitShift ==
    /\ board = [size |-> BoardSize]
    /\ tiles \in PureBoards
    /\ spawned = 0
    /\ commands = <<>>
    /\ events = [a |-> <<>>, b |-> <<>>]
    /\ game = [score |-> 0, best_score |-> 0]
    /\ state = "Playing"
    /\ next_state = "None"
    /\ ran = {}
    /\ turns = 0
    /\ merged = <<>>
    /\ served = 0
    /\ panicked = FALSE
    /\ probe = NoProbe

\* board_shift applied once to the board, for one arrow key
ShiftAlone ==
    /\ probe = NoProbe
    /\ \E direction \in Directions :
         /\ BoardShiftBody(direction)
         /\ probe' = [tiles |-> tiles, dir |-> direction, keys |-> {direction}]
    /\ ran' = ran \cup {"board_shift"}
    /\ UNCHANGED <<board, state, next_state, served, spawned>>

NextShift == ShiftAlone

SpecShift == InitShift /\ [][NextShift]_vars

-----------------------------------------------------------------------------
(* The handling of the pressed keys examined alone, on the 4x4 board *)

InputBoards == {b \in PureBoards : BagCardinality(b) <= MaxInputTiles}

InitInput ==
    /\ board = [size |-> BoardSize]
    /\ tiles \in InputBoards
    /\ spawned = 0
    /\ commands = <<>>
    /\ events = [a |-> <<>>, b |-> <<>>]
    /\ game = [score |-> 0, best_score |-> 0]
    /\ state = "Playing"
    /\ next_state = "None"
    /\ ran = {}
    /\ turns = 0
    /\ merged = <<>>
    /\ served = 0
    /\ panicked = FALSE
    /\ probe = NoProbe

\* board_shift run once in a frame in which `keys` are just pressed
ShiftOnInput ==
    /\ probe = NoProbe
    /\ \E keys \in KeySets :
         \E direction \in find_map(keys) :
           /\ BoardShiftBody(direction)
           /\ probe' = [tiles |-> tiles, dir |-> direction, keys |-> keys]
    /\ ran' = ran \cup {"board_shift"}
    /\ UNCHANGED <<board, state, next_state, served, spawned>>

NextInput == ShiftOnInput

SpecInput == InitInput /\ [][NextInput]_vars

-----------------------------------------------------------------------------
(* end_game and the shift examined on the same 4x4 board *)

\* Rows 2 and 3 filled with 8 and 16 in a checkerboard
UpperRows ==
    SetToBag({[x |-> cx, y |-> cy, value |-> IF (cx + cy) % 2 = 0 THEN 8 ELSE 16] :
                 cx \in 0..(BoardSize - 1), cy \in 2..3})

\* Rows 0 and 1 hold any of empty, 2 and 4 in each cell under the
\* checkerboard; or one row or column does and the rest of the board is empty.
TerminalBoards ==
    LET Lines == [0..(BoardSize - 1) -> {0, 2, 4}]
        none == [i \in 0..(BoardSize - 1) |-> 0]
    IN  {BoardOfLines(FALSE, l0, l1) (+) UpperRows : l0 \in Lines, l1 \in Lines}
        \cup {BoardOfLines(tr, l0, none) : tr \in BOOLEAN, l0 \in Lines}

InitTerminal ==
    /\ board = [size |-> BoardSize]
    /\ tiles \in TerminalBoards
    /\ spawned = 0
    /\ commands = <<>>
    /\ events = [a |-> <<>>, b |-> <<>>]
    /\ game = [score |-> 0, best_score |-> 0]
    /\ state = "Playing"
    /\ next_state = "None"
    /\ ran = {}
    /\ turns = 0
    /\ merged = <<>>
    /\ served = 0
    /\ panicked = FALSE
    /\ probe = NoProbe

\* end_game run on the board before any shift
EndGameAlone ==
    /\ probe = NoProbe
    /\ EndGame

NextTerminal ==
    \/ EndGameAlone
    \/ ShiftAlone

SpecTerminal == InitTerminal /\ [][NextTerminal]_vars

-----------------------------------------------------------------------------
(* Views of the state *)

DespawnedNow ==
    LET ds == SelectSeq(commands, LAMBDA c : c.op = "despawn")
    IN  BagOfSeq([i \in 1..Len(ds) |-> ds[i].tile])

SpawnsNow == SelectSeq(commands, LAMBDA c : c.op = "spawn")

\* The board of the game: the tile entities whose despawn is not requested
Live == tiles (-) DespawnedNow

Unique(world) ==
    \A t \in BagToSet(world) :
        /\ CopiesIn(t, world) = 1
        /\ \A u \in BagToSet(world) : PosOf(u) = PosOf(t) => u = t

InBounds(world, board_size) ==
    \A t \in BagToSet(world) : t.x \in 0..(board_size - 1) /\ t.y \in 0..(board_size - 1)

Full(world, board_size) == BagCardinality(world) = board_size * board_size

\* Every cell of the board holds a tile.
NoEmptyCell(world, board_size) ==
    \A c \in Cells(board_size) : \E t \in BagToSet(world) : PosOf(t) = c

Abs(i) == IF i < 0 THEN -i ELSE i

\* Some tile has a horizontally or vertically adjacent in-bounds tile of
\* equal value.
EqualNeighbours(world, board_size) ==
    \E t \in BagToSet(world) : \E u \in BagToSet(world) :
        /\ u.x \in 0..(board_size - 1) /\ u.y \in 0..(board_size - 1)
        /\ Abs(t.x - u.x) + Abs(t.y - u.y) = 1
        /\ t.value = u.value

Terminal(world, board_size) ==
    Full(world, board_size) /\ ~EqualNeighbours(world, board_size)

\* Steps of the systems
ShiftStep == "board_shift" \notin ran /\ "board_shift" \in ran'
HandlerStep == "new_tile_handler" \notin ran /\ "new_tile_handler" \in ran'
EndGameStep == "end_game" \notin ran /\ "end_game" \in ran'
ResetStep == state = "GameOver" /\ state' = "Playing"
FlushStep == state = "Playing" /\ ran = Systems /\ ran' = {}

TypeOK ==
    /\ state \in {"Playing", "GameOver"}
    /\ next_state \in {"None", "Playing", "GameOver"}
    /\ ran \subseteq Systems
    /\ turns \in 0..MaxTurns
    /\ served \in 0..MaxTurns
    /\ panicked \in BOOLEAN
    /\ spawned \in Nat
    /\ game.score >= 0 /\ game.best_score >= 0

-----------------------------------------------------------------------------
(* The reference row rule of 2048 *)

\* Equal neighbours merge pairwise from the leading edge; a merged value
\* takes no part in a second merge.
RECURSIVE MergeRow(_)
MergeRow(vs) ==
    IF Len(vs) < 2 THEN vs
    ELSE IF vs[1] = vs[2]
         THEN <<2 * vs[1]>> \o MergeRow(SubSeq(vs, 3, Len(vs)))
         ELSE <<vs[1]>> \o MergeRow(Tail(vs))

RECURSIVE RowGain(_)
RowGain(vs) ==
    IF Len(vs) < 2 THEN 0
    ELSE IF vs[1] = vs[2]
         THEN 2 * vs[1] + RowGain(SubSeq(vs, 3, Len(vs)))
         ELSE RowGain(Tail(vs))

\* The cell of slot k (0 = leading edge) of a line, for a direction
SlotCell(dir, board_size, line, k) ==
    CASE dir = "Left"  -> [x |-> k, y |-> line]
      [] dir = "Right" -> [x |-> board_size - 1 - k, y |-> line]
      [] dir = "Down"  -> [x |-> line, y |-> k]
      [] dir = "Up"    -> [x |-> line, y |-> board_size - 1 - k]

CellValue(world, c) ==
    IF \E t \in BagToSet(world) : PosOf(t) = c
    THEN (CHOOSE t \in BagToSet(world) : PosOf(t) = c).value
    ELSE 0

\* The values of a line, read from the leading edge, empty cells skipped
LineValues(world, dir, board_size, line) ==
    LET all == [k \in 1..board_size |->
                  CellValue(world, SlotCell(dir, board_size, line, k - 1))]
    IN  SelectSeq(all, LAMBDA v : v # 0)

RefShift(world, dir, board_size) ==
    SetToBag(UNION {
        LET m == MergeRow(LineValues(world, dir, board_size, line))
        IN  {[x |-> SlotCell(dir, board_size, line, k - 1).x,
              y |-> SlotCell(dir, board_size, line, k - 1).y,
              value |-> m[k]] : k \in 1..Len(m)} :
        line \in 0..(board_size - 1)})

RECURSIVE RefGainUpTo(_, _, _, _)
RefGainUpTo(world, dir, board_size, line) ==
    IF line < 0 THEN 0
    ELSE RowGain(LineValues(world, dir, board_size, line))
         + RefGainUpTo(world, dir, board_size, line - 1)

RefGain(world, dir, board_size) == RefGainUpTo(world, dir, board_size, board_size - 1)

\* A board holding exactly the row `row` (0 for an empty cell) at y = 0
RowBoard(row) ==
    SetToBag({[x |-> i - 1, y |-> 0, value |-> row[i]] : i \in {k \in DOMAIN row : row[k] # 0}})

-----------------------------------------------------------------------------
(* Claims *)

\* C1: in every reachable state no two live tiles share a position, every
\* tile's x and y lie in [0, size), and there are at most size*size tiles.
C1_UniqueInBounds ==
    /\ Unique(Live)
    /\ InBounds(Live, board.size)
    /\ BagCardinality(Live) <= board.size * board.size

\* C2: end_game requests GameOver if and only if the board is full and no
\* tile has an adjacent in-bounds tile of equal value; otherwise the game
\* stays in Playing.
C2_EndGameIffTerminal ==
    [][EndGameStep =>
         /\ Terminal(Live, board.size) => next_state' = "GameOver"
         /\ ~Terminal(Live, board.size) => next_state' = "None"]_vars

\* C3: a shift, alone on a board, gives in every line the reference 2048
\* row rule (pairwise merges from the leading edge, no second merge of a
\* merged tile) and adds the merged values to score.
C3_ShiftIsRowRule ==
    probe # NoProbe =>
        /\ Live = RefShift(probe.tiles, probe.dir, board.size)
        /\ game.score = RefGain(probe.tiles, probe.dir, board.size)

\* C3 witness: the row [2,2,2,2] shifted Left gave [4,4,0,0] and 8 points.
C3_Witness ==
    /\ probe.dir = "Left"
    /\ probe.tiles = RowBoard(<<2, 2, 2, 2>>)
    /\ Live = RowBoard(<<4, 4, 0, 0>>)
    /\ game.score = 8

\* C4: a spawn is requested only for a command whose shift changed the
\* board (moved or merged a tile).
C4_SpawnOnlyIfChanged ==
    \A i \in 1..Len(SpawnsNow) : SpawnsNow[i].changed

RECURSIVE SumAfter(_)
SumAfter(ms) ==
    IF ms = <<>> THEN 0 ELSE Head(ms).after + SumAfter(Tail(ms))

\* The entities whose despawn the current step requested
DespawnedByStep ==
    LET new == SubSeq(commands', Len(commands) + 1, Len(commands'))
    IN  SelectSeq(new, LAMBDA c : c.op = "despawn")

\* C5: every merge doubles the surviving tile's value and adds the doubled
\* value to score; score never decreases except at a reset, and a shift
\* without a merge leaves it unchanged.
C5_MergeScore ==
    [][/\ ~ResetStep => game'.score >= game.score
       /\ ShiftStep =>
            /\ \A i \in 1..Len(merged') : merged'[i].after = 2 * merged'[i].before
            /\ game'.score = game.score + SumAfter(merged')
            /\ Len(DespawnedByStep) = Len(merged')
            /\ \A i \in 1..Len(merged') :
                   merged'[i].before = DespawnedByStep[i].tile.value
            /\ merged' = <<>> => game'.score = game.score
       /\ ~ShiftStep /\ ~ResetStep => game'.score = game.score]_vars

\* C5 witness: a shift merged two tiles and the score grew.
C5_Witness ==
    /\ merged # <<>>
    /\ game.score > 0

\* C6: best_score never decreases, after every directional turn it is the
\* maximum of the previous best_score and score, and it is never below score.
C6_BestScore ==
    /\ game.best_score >= game.score
    /\ [][/\ game'.best_score >= game.best_score
          /\ game'.best_score >= game'.score
          /\ ShiftStep =>
               game'.best_score = IF game.best_score >= game'.score
                                  THEN game.best_score ELSE game'.score]_vars

\* C6 witness: after a reset, a turn of the new game has been played while
\* best_score still holds the higher score of an earlier game.
C6_Witness ==
    /\ turns > 0
    /\ "board_shift" \in ran
    /\ game.best_score > game.score

\* C7: entering Playing by a reset removes every tile, sets score to 0, keeps
\* best_score and leaves exactly two tiles of value 2 at two distinct
\* in-bounds positions, whichever of game_reset and spawn_tiles runs first.
C7_Reset ==
    [][ResetStep =>
         /\ BagCardinality(tiles') = 2
         /\ \A t \in BagToSet(tiles') : t.value = 2
         /\ Unique(tiles')
         /\ InBounds(tiles', board.size)
         /\ game'.score = 0
         /\ game'.best_score = game.best_score]_vars

\* C7 witness: a game that scored points was reset and the new game starts.
C7_Witness ==
    /\ state = "Playing"
    /\ turns = 0
    /\ game.best_score > 0
    /\ game.score = 0
    /\ BagCardinality(tiles) = 2

\* C8: when a spawned tile is placed, its cell is occupied by no live tile
\* (nor by another tile placed with it) and its value is 2.
C8_SpawnIntoEmptyCell ==
    ran = Systems =>
        /\ \A i \in 1..Len(SpawnsNow) :
               /\ \A t \in BagToSet(Live) : PosOf(t) # SpawnsNow[i].pos
               /\ spawn_tile(SpawnsNow[i].pos).value = 2
        /\ \A i, j \in 1..Len(SpawnsNow) :
               i # j => SpawnsNow[i].pos # SpawnsNow[j].pos

\* The spawns the current step requested
SpawnedByStep ==
    LET new == SubSeq(commands', Len(commands) + 1, Len(commands'))
    IN  SelectSeq(new, LAMBDA c : c.op = "spawn")

C10_GameOverOnResolvedBoard ==
    state = "GameOver" => Terminal(tiles, board.size)

\* C11: while the game is in GameOver no system of OnUpdate(Playing) runs, so
\* no directional command is processed: tiles, score and best_score stay as
\* they are and no spawn is requested.  GameOver is entered only through the
\* request of end_game, and left only through the request of a reset.
C11_GameOverFrozen ==
    [][/\ state = "GameOver" /\ state' = "GameOver" =>
             /\ tiles' = tiles
             /\ game' = game
             /\ turns' = turns
             /\ commands' = <<>>
             /\ ran' = {}
       /\ state # "GameOver" /\ state' = "GameOver" => next_state = "GameOver"
       /\ next_state # "GameOver" /\ next_state' = "GameOver" => EndGameStep
       /\ state = "GameOver" /\ state' # "GameOver" => next_state = "Playing"
       /\ next_state # "Playing" /\ next_state' = "Playing" =>
             /\ state = "GameOver"
             /\ UNCHANGED <<board, tiles, commands, events, game, state, ran, turns>>]_vars

\* C11 witness: the game is over after a game that scored points, the frame
\* that ended it is flushed and no reset is requested.
C11_Witness ==
    /\ state = "GameOver"
    /\ next_state = "None"
    /\ commands = <<>>
    /\ events = [a |-> <<>>, b |-> <<>>]
    /\ game.score > 0

\* C12: when new_tile_handler reads a NewTileEvent while the board has no
\* empty cell, it requests nothing: no tile is added, removed or changed,
\* the game state is as before and the process has not panicked.
C12_SpawnerNoOpOnFullBoard ==
    [][HandlerStep /\ iter(events) # <<>> /\ NoEmptyCell(Live, board.size) =>
         /\ tiles' = tiles
         /\ commands' = commands
         /\ game' = game
         /\ state' = state
         /\ next_state' = next_state
         /\ panicked' = panicked]_vars

\* C12 witness: in this frame the shift of a full board sent its event, the
\* handler read it after the shift and requested no spawn, the board being
\* full.
C12_Witness ==
    /\ {"board_shift", "new_tile_handler"} \subseteq ran
    /\ turns > served
    /\ events = [a |-> <<>>, b |-> <<>>]
    /\ SpawnsNow = <<>>
    /\ Unique(Live)
    /\ NoEmptyCell(Live, board.size)

\* C13: a frame whose just-pressed keys hold no arrow key leaves tiles, score,
\* best_score and the game state as they were and sends no NewTileEvent; a
\* frame with one or several arrow keys applies exactly one shift, in the
\* direction of one of the pressed arrows, and sends one event.
C13_InputHandling ==
    "board_shift" \in ran =>
        /\ probe.keys \cap Directions = {} =>
              /\ tiles = probe.tiles
              /\ commands = <<>>
              /\ events = [a |-> <<>>, b |-> <<>>]
              /\ game = [score |-> 0, best_score |-> 0]
              /\ turns = 0
              /\ state = "Playing" /\ next_state = "None"
        /\ probe.keys \cap Directions # {} =>
              /\ \E d \in probe.keys \cap Directions :
                    /\ Live = RefShift(probe.tiles, d, board.size)
                    /\ game.score = RefGain(probe.tiles, d, board.size)
              /\ turns = 1
              /\ Len(events.b) = 1
              /\ state = "Playing" /\ next_state = "None"

\* C13 witness: Space, Left and Right were pressed in one frame on the row
\* [0,2,0,0]; one shift was applied, here the one to the Left.
C13_Witness ==
    /\ probe.keys = {"Space", "Left", "Right"}
    /\ probe.tiles = RowBoard(<<0, 2, 0, 0>>)
    /\ Live = RowBoard(<<2, 0, 0, 0>>)
    /\ turns = 1

RECURSIVE IsPowerOfTwo(_)
IsPowerOfTwo(v) ==
    IF v <= 1 THEN v = 1 ELSE v % 2 = 0 /\ IsPowerOfTwo(v \div 2)

\* C14: in every reachable state the value of every tile entity, and of
\* every tile a buffered spawn will create, is a power of two and at least 2.
C14_PowersOfTwo ==
    /\ \A t \in BagToSet(tiles) : t.value >= 2 /\ IsPowerOfTwo(t.value)
    /\ \A i \in 1..Len(SpawnsNow) :
           LET t == spawn_tile(SpawnsNow[i].pos)
           IN  t.value >= 2 /\ IsPowerOfTwo(t.value)

\* C14 witness: merges have built a tile of value 8 next to a spawned 2.
C14_Witness ==
    /\ \E t \in BagToSet(Live) : t.value = 8
    /\ \E t \in BagToSet(Live) : t.value = 2

\* The line (row for Left and Right, column for Up and Down) a position is in
LineOf(dir, pos) == IF dir \in {"Left", "Right"} THEN pos.y ELSE pos.x

\* The slot of a position in its line, counted from the leading edge
AxisSlot(dir, board_size, pos) ==
    CASE dir = "Left"  -> pos.x
      [] dir = "Right" -> board_size - 1 - pos.x
      [] dir = "Down"  -> pos.y
      [] dir = "Up"    -> board_size - 1 - pos.y

\* C15: after a shift of a board, alone, the surviving tiles of every line
\* occupy the slots 0..k-1 from the leading edge, are in the order along the
\* axis they had before, and each is in the line it was in before.
C15_Compaction ==
    probe # NoProbe =>
        \E it \in sorted_by(probe.tiles, probe.dir) :
          LET r == Shift(it, probe.dir, board.size)
              n == Len(r.kept)
          IN  /\ Live = BagOfSeq(r.kept)
              /\ BagOfSeq(r.origin) (+) BagOfSeq(r.despawned) = probe.tiles
              /\ \A i \in 1..n :
                     LineOf(probe.dir, r.kept[i]) = LineOf(probe.dir, r.origin[i])
              /\ \A i, j \in 1..n :
                     /\ LineOf(probe.dir, r.origin[i]) = LineOf(probe.dir, r.origin[j])
                     /\ AxisSlot(probe.dir, board.size, r.origin[i])
                          < AxisSlot(probe.dir, board.size, r.origin[j])
                     => AxisSlot(probe.dir, board.size, r.kept[i])
                          < AxisSlot(probe.dir, board.size, r.kept[j])
              /\ \A line \in 0..(board.size - 1) :
                     LET here == {t \in BagToSet(Live) : LineOf(probe.dir, t) = line}
                     IN  /\ \A t \in here : CopiesIn(t, Live) = 1
                         /\ {AxisSlot(probe.dir, board.size, t) : t \in here}
                              = 0..(Cardinality(here) - 1)

\* C15 witness: the row [2,0,4,0] shifted Right gave [0,0,2,4].
C15_Witness ==
    /\ probe.dir = "Right"
    /\ probe.tiles = RowBoard(<<2, 0, 4, 0>>)
    /\ Live = RowBoard(<<0, 0, 2, 4>>)

\* Every line of the board is compacted against the leading edge of dir
Compacted(world, dir, board_size) ==
    \A line \in 0..(board_size - 1) :
        LET here == {t \in BagToSet(world) : LineOf(dir, t) = line}
        IN  {AxisSlot(dir, board_size, t) : t \in here} = 0..(Cardinality(here) - 1)

\* Two tiles next to each other along the axis of dir have equal values
AxisAdjacentEqual(world, dir, board_size) ==
    \E t \in BagToSet(world) : \E u \in BagToSet(world) :
        /\ LineOf(dir, t) = LineOf(dir, u)
        /\ AxisSlot(dir, board_size, u) = AxisSlot(dir, board_size, t) + 1
        /\ t.value = u.value

\* C16: a shift of a board whose lines are all compacted against the leading
\* edge and hold no two axis-adjacent equal values leaves every tile where
\* and what it was, requests no despawn and adds 0 to score.
C16_NoOpShift ==
    /\ probe # NoProbe
    /\ Compacted(probe.tiles, probe.dir, board.size)
    /\ ~AxisAdjacentEqual(probe.tiles, probe.dir, board.size)
    => /\ tiles = probe.tiles
       /\ commands = <<>>
       /\ merged = <<>>
       /\ game.score = 0

\* C16 witness: the row [2,4,2,0] shifted Left is still [2,4,2,0], score 0.
C16_Witness ==
    /\ probe.dir = "Left"
    /\ probe.tiles = RowBoard(<<2, 4, 2, 0>>)
    /\ tiles = RowBoard(<<2, 4, 2, 0>>)
    /\ commands = <<>>
    /\ game.score = 0

\* Some shift of the board in direction d moves or merges a tile
ShiftChanges(world, d, board_size) ==
    \E it \in sorted_by(world, d) : BagOfSeq(Shift(it, d, board_size).kept) # world

\* C17: for a board with at least one tile, end_game declares the game over
\* exactly when the board is full with no two adjacent equal values; a board
\* it declares over is left as it is by a shift in each direction, and a
\* board it does not declare over is changed by the shift of some direction.
C17_TerminalIffNoMove ==
    LET original == IF probe = NoProbe THEN tiles ELSE probe.tiles
        verdict == next_state = "GameOver"
    IN  "end_game" \in ran /\ original # EmptyBag =>
            /\ verdict <=> Terminal(original, board.size)
            /\ verdict /\ probe # NoProbe =>
                  /\ tiles = probe.tiles
                  /\ commands = <<>>
                  /\ game.score = 0
            /\ ~verdict /\ probe = NoProbe =>
                  \E d \in Directions : ShiftChanges(tiles, d, board.size)

\* C17 witness: end_game declared a full board over and the shift to the
\* Right that followed left every tile in place.
C17_Witness ==
    /\ "end_game" \in ran
    /\ next_state = "GameOver"
    /\ probe.dir = "Right"
    /\ Full(probe.tiles, board.size)
    /\ tiles = probe.tiles

\* C18: a shift leaves the sum of the values of the live tiles as it was,
\* the end of a frame adds 2 to it for every spawn it applies, and in every
\* reachable state the sum is twice the number of tiles spawned since the
\* last reset (the two starting tiles included).
C18_SumConservation ==
    /\ BagSum(Live) = 2 * spawned
    /\ [][/\ ShiftStep => BagSum(Live') = BagSum(Live)
          /\ FlushStep => BagSum(tiles') = BagSum(Live) + 2 * Len(SpawnsNow)]_vars

\* C18 witness: after a reset four tiles have been spawned and merges have
\* left fewer than four on the board.
C18_Witness ==
    /\ state = "Playing"
    /\ game.best_score > game.score
    /\ spawned = 4
    /\ BagCardinality(Live) < 4
    /\ merged # <<>>

\* Images of a board of tiles at distinct positions
MirrorX(world, board_size) ==
    SetToBag({[x |-> board_size - 1 - t.x, y |-> t.y, value |-> t.value] :
                 t \in BagToSet(world)})

MirrorY(world, board_size) ==
    SetToBag({[x |-> t.x, y |-> board_size - 1 - t.y, value |-> t.value] :
                 t \in BagToSet(world)})

Transpose(world) ==
    SetToBag({[x |-> t.y, y |-> t.x, value |-> t.value] : t \in BagToSet(world)})

\* The outcomes of board_shift on a board: the surviving tiles and the score
\* added
ShiftOutcomes(world, d, board_size) ==
    {LET r == Shift(it, d, board_size)
     IN  [tiles |-> BagOfSeq(r.kept), score |-> r.score] : it \in sorted_by(world, d)}

\* C19: the shift to the Right of a board is the horizontal mirror image of
\* the shift to the Left of the mirrored board, with the same score; Up is
\* the vertical mirror image of Down; Down is the transpose of Left, and
\* Left the transpose of Down.
C19_MirrorSymmetry ==
    probe # NoProbe =>
        LET n == board.size
            got == [tiles |-> Live, score |-> game.score]
            image(o, f(_)) == [tiles |-> f(o.tiles), score |-> o.score]
            mx(w) == MirrorX(w, n)
            my(w) == MirrorY(w, n)
            tr(w) == Transpose(w)
        IN  CASE probe.dir = "Right" ->
                   got \in {image(o, mx) : o \in ShiftOutcomes(mx(probe.tiles), "Left", n)}
              [] probe.dir = "Up" ->
                   got \in {image(o, my) : o \in ShiftOutcomes(my(probe.tiles), "Down", n)}
              [] probe.dir = "Down" ->
                   got \in {image(o, tr) : o \in ShiftOutcomes(tr(probe.tiles), "Left", n)}
              [] probe.dir = "Left" ->
                   got \in {image(o, tr) : o \in ShiftOutcomes(tr(probe.tiles), "Down", n)}

\* C19 witness: the row [2,2,2,0] shifted Right gave [0,0,2,4] and 4 points,
\* the mirror image of [0,2,2,2] shifted Left.
C19_Witness ==
    /\ probe.dir = "Right"
    /\ probe.tiles = RowBoard(<<2, 2, 2, 0>>)
    /\ Live = RowBoard(<<0, 0, 2, 4>>)
    /\ game.score = 4

====
